---- MODULE Spec2Model ----
(***************************************************************************)
(* The multiplexer of queen-core (src/service/service.rs): one Service     *)
(* owning a poller, a token -> Connection registry, an optional listening  *)
(* socket and the two control channels, driven by run / run_once /         *)
(* dispatch.  The host process is modelled as a concurrent sender on the   *)
(* inbound channel; sockets and peers are modelled by the outcomes their   *)
(* system calls can have.                                                  *)
(***************************************************************************)
EXTENDS Integers, Sequences, FiniteSets, TLC

(* ---------------------------------------------------------------- bounds *)
MaxToken == 10      \* allocation stops when token_counter reaches this value
MaxPolls == 2       \* number of poll() calls of one run
MaxSends == 2       \* number of items the host puts on the inbound channel
MaxBatch == 2       \* events one poll() call delivers
MaxAccept == 1      \* sockets one listening-socket event accepts
MaxBody == 2        \* bytes of a Message body
MaxFrames == 2      \* frames of one byte stream fed to a reader
MaxCalls == 4       \* method calls made on one Conn
MaxSetters == 3     \* setter calls made on one packet Header

(* ----------------------------------------------------- program constants *)
SOCKET == 0
CHANNEL == 1
InitialToken == 8
UNKNOW == 32769     \* OpCode::UNKNOW, 0x8001

(* ------------------------------------------------------------ data types *)
NoSocket == "none"
NoAddr == ""
Payload == "m"
ErrDescriptions == {"address in use"}

\* ServiceMessage, all variants in one record shape.
Item(type, id, addr, token, success, msg) ==
    [type |-> type, id |-> id, addr |-> addr, token |-> token,
     success |-> success, msg |-> msg]

Message(id, message) == Item("Message", id, NoAddr, 0, FALSE, message)
Listen(id, addr) == Item("Listen", id, addr, 0, FALSE, "")
LinkTo(id, addr) == Item("LinkTo", id, addr, 0, FALSE, "")
Shoutdown == Item("Shoutdown", 0, NoAddr, 0, FALSE, "")
CloseConn(id) == Item("CloseConn", id, NoAddr, 0, FALSE, "")
ListenReply(id, addr, success, msg) == Item("ListenReply", id, addr, 0, success, msg)
LinkToReply(id, token, addr, success, msg) ==
    Item("LinkToReply", id, addr, token, success, msg)

\* What the host may put on the inbound channel: a message for a connection
\* token and one for a reserved token, and every Command variant.
Inputs ==
    {Message(InitialToken, Payload), Message(CHANNEL, Payload),
     Listen(1, "a"), LinkTo(2, "b"), Shoutdown, CloseConn(InitialToken),
     ListenReply(1, "a", TRUE, ""), LinkToReply(2, InitialToken, "b", TRUE, "")}

\* Readiness of a connection event.  "hup" is a hangup or an error:
\* connect_process takes the same arm for is_hup() and is_error().
Readiness == {{"r"}, {"w"}, {"r", "w"}, {"hup"}}

\* The codec variable while the service runs: no frame is being coded.
NoCodec == [stage |-> "idle"]

\* The wrapper variable while no Conn is exercised.
NoWrapper == [calls |-> 0]

\* The header variable while no Header is exercised.
NoHeader == [calls |-> 0]

VARIABLES
    conns,            \* Service.conns: token -> Connection
    token_counter,    \* Service.token_counter
    rx_in,            \* inbound channel, items not yet received
    rx_seq,           \* for each item of rx_in, its number in the order of the sends
    received,         \* the number of the item try_recv returned last, or 0
    tx_out,           \* outbound channel, every item sent so far
    socket,           \* Service.socket: NoSocket or the bound address
    run,              \* Service.run
    registered,       \* connection tokens with poller interest
    events,           \* Service.events: the part of the batch not yet dispatched
    pc,               \* "loop": at the while of run; "batch": in run_once's for;
                      \* "rearm": before the reregister of channel_process; "done"
    result,           \* how run() ended: "none", "ok", "err", "panic"
    senders,          \* TRUE while the host holds a Sender of the inbound channel
    sends,            \* items the host has sent
    polls,            \* poll() calls made
    sockets,          \* sockets opened so far (identities of connections)
    allocs,           \* tokens next_token has returned, in order
    shutdown_at,      \* the poll() call in whose batch Shoutdown was first executed, or 0
    closed_by_command, \* tokens removed from the registry by a CloseConn command
    last,             \* what the last step of the service did
    late,             \* numbers of the items sent between the last empty try_recv and
                      \* the re-arm that followed it
    channel_armed,    \* the single-shot subscription of rx_in under CHANNEL is armed
    codec,            \* the frame codec's run: a Message, its bytes, what read returned
    wrapper,          \* a Conn (conn.rs) and the calls made on it
    header            \* a packet Header (packet.rs) and the setters called on it

vars == <<conns, token_counter, rx_in, rx_seq, received, tx_out, socket, run, registered, events,
          pc, result, senders, sends, polls, sockets, allocs, shutdown_at,
          closed_by_command, last, late, channel_armed, codec, wrapper, header>>

service_vars ==
    <<conns, token_counter, rx_in, rx_seq, received, tx_out, socket, run, registered,
      events, pc, result, senders, sends, polls, sockets, allocs, shutdown_at,
      closed_by_command, last, late, channel_armed>>

\* op: the branch taken; token, item: what it was about; rerr, werr: the reader
\* or writer failed; live: the token was a key of the registry before the step;
\* n: sockets accepted.
Last(op, token, item, rerr, werr, live) ==
    [op |-> op, token |-> token, item |-> item, rerr |-> rerr, werr |-> werr,
     live |-> live, n |-> 0]

LastAccept(op, n, clash) ==
    [Last(op, 0, Item("none", 0, NoAddr, 0, FALSE, ""), FALSE, FALSE, clash)
     EXCEPT !.n = n]

NoItem == Item("none", 0, NoAddr, 0, FALSE, "")

\* Connection (src/service/connection.rs is not part of the sources; modelled
\* from the specification): the socket it owns, the number of encoded frames
\* in its outbound queue, and whether writable interest is registered.
Connection(sock, via) == [sock |-> sock, via |-> via, outq |-> 0, winterest |-> FALSE]

\* A Service constructed with a listening socket already bound.
new_listening ==
    /\ conns = <<>>
    /\ token_counter = InitialToken
    /\ rx_in = <<>>
    /\ rx_seq = <<>>
    /\ received = 0
    /\ tx_out = <<>>
    /\ socket = "a"
    /\ channel_armed = TRUE
    /\ late = {}
    /\ run = TRUE
    /\ registered = {}
    /\ events = <<>>
    /\ pc = "loop"
    /\ result = "none"
    /\ senders = TRUE
    /\ sends = 0
    /\ polls = 0
    /\ sockets = 0
    /\ allocs = <<>>
    /\ shutdown_at = 0
    /\ closed_by_command = {}
    /\ last = Last("new", 0, NoItem, FALSE, FALSE, FALSE)

\* Service::new.
New ==
    /\ conns = <<>>
    /\ token_counter = InitialToken
    /\ rx_in = <<>>
    /\ rx_seq = <<>>
    /\ received = 0
    /\ tx_out = <<>>
    /\ socket = NoSocket
    /\ channel_armed = TRUE
    /\ late = {}
    /\ run = TRUE
    /\ registered = {}
    /\ events = <<>>
    /\ pc = "loop"
    /\ result = "none"
    /\ senders = TRUE
    /\ sends = 0
    /\ polls = 0
    /\ sockets = 0
    /\ allocs = <<>>
    /\ shutdown_at = 0
    /\ closed_by_command = {}
    /\ last = Last("new", 0, NoItem, FALSE, FALSE, FALSE)

Init == New /\ codec = NoCodec /\ wrapper = NoWrapper /\ header = NoHeader

(* ------------------------------------------------------- pure operations *)

\* next_token without the increment of the counter.
next_token_stuck(counter) == [token |-> counter, counter |-> counter]

\* next_token counting down.
next_token_down(counter) == [token |-> counter, counter |-> counter - 1]

\* Service::next_token: returns the counter's value and advances it by one.
next_token(counter) == [token |-> counter, counter |-> counter + 1]

\* HashMap::insert(token, conn): a present key is overwritten.
insert(cs, token, conn) ==
    [t \in (DOMAIN cs) \cup {token} |-> IF t = token THEN conn ELSE cs[t]]

\* remove_connent without the deregistration.
remove_keeps_interest(cs, reg, token) ==
    [conns |-> [t \in (DOMAIN cs) \ {token} |-> cs[t]], registered |-> reg]

\* Service::remove_connent: removes the token if it is a key and deregisters
\* the removed connection's poller interest.
remove_connent(cs, reg, token) ==
    IF token \in DOMAIN cs
    THEN [conns |-> [t \in (DOMAIN cs) \ {token} |-> cs[t]],
          registered |-> reg \ {token}]
    ELSE [conns |-> cs, registered |-> reg]

\* A Shoutdown arm that leaves the run flag as it is.
shoutdown_ignored(r) == r

\* The arm of service_command for Shoutdown: the new value of the run flag.
shoutdown_run(r) == FALSE

\* A failed bind answered like a successful one.
listen_failed_as_success(id, addr, description) == ListenReply(id, addr, TRUE, "")

\* The reply of the Listen arm when bind fails.
listen_failed_reply(id, addr, description) == ListenReply(id, addr, FALSE, description)

\* The close notification connect_process sends for a token.
close_notification(token) == CloseConn(token)

\* connect_process, the value of `close` after the reader and the writer ran:
\* ranR/ranW say whether each ran, rerr/werr whether it failed.  The writer's
\* assignment overwrites the reader's.
close_flag(ranR, rerr, ranW, werr) ==
    LET afterReader == IF ranR THEN rerr ELSE FALSE
    IN  IF ranW THEN werr ELSE afterReader

\* A loop that does not look at the run flag.
loop_forever(r) == TRUE

\* run: the while condition.
loop_continues(r) == r

(* ------------------------------------------------------- control helpers *)

\* The for loop of run_once moves to the next event, or run_once returns.
AfterEvent ==
    /\ events' = Tail(events)
    /\ pc' = IF Tail(events) = <<>> THEN "loop" ELSE "batch"
    /\ result' = result

\* An Err travels through dispatch and run_once's `?` out of run.
ReturnErr ==
    /\ events' = events
    /\ pc' = "done"
    /\ result' = "err"

\* A panic unwinds out of run.
Panic ==
    /\ events' = events
    /\ pc' = "done"
    /\ result' = "panic"

Dispatching(token) ==
    /\ pc = "batch"
    /\ events # <<>>
    /\ Head(events).token = token

\* A try_recv that returns the item sent last.
try_recv_newest(queue) ==
    [msg |-> queue[Len(queue)], rest |-> SubSeq(queue, 1, Len(queue) - 1)]

\* self.rx_in.try_recv() on a non-empty channel: the oldest item leaves it.
try_recv(queue) == [msg |-> Head(queue), rest |-> Tail(queue)]

InChannel == Dispatching(CHANNEL) /\ rx_in # <<>>

\* channel_process takes the item try_recv returns off the channel.
Recv ==
    /\ rx_in' = try_recv(rx_in).rest
    /\ rx_seq' = try_recv(rx_seq).rest
    /\ received' = try_recv(rx_seq).msg

HostUnchanged == UNCHANGED <<senders, sends, polls, codec, wrapper, header>>

ServiceUnchanged == HostUnchanged /\ UNCHANGED <<channel_armed, late>>

ShutdownExecuted == shutdown_at > 0

(* --------------------------------------------- Connection (from the spec) *)

\* Connection::recv_message (enqueue): the encoded frame joins the outbound
\* queue and writable interest is registered.
recv_message(conn) == [conn EXCEPT !.outq = @ + 1, !.winterest = TRUE]

\* Connection::writer succeeded leaving `left` frames queued: writable
\* interest stays registered only while data remains.
writer(conn, left) == [conn EXCEPT !.outq = left, !.winterest = (left > 0)]

(* ------------------------------------------- channel_process, one item *)

\* A lookup that creates the entry it does not find.
deliver_creating(cs, id) ==
    IF id \in DOMAIN cs
    THEN [cs EXCEPT ![id] = recv_message(@)]
    ELSE [t \in (DOMAIN cs) \cup {id} |->
             IF t = id THEN recv_message(Connection(0, "link")) ELSE cs[t]]

\* `if let Some(conn) = self.conns.get_mut(&Token(id))`: the message is
\* enqueued on the connection found; without one nothing is done.
deliver(cs, id) ==
    IF id \in DOMAIN cs THEN [cs EXCEPT ![id] = recv_message(@)] ELSE cs

\* channel_process, ServiceMessage::Message(id, message): enqueue on the
\* addressed connection if it is a key of the registry, else drop.
ChanMessage ==
    /\ InChannel
    /\ try_recv(rx_in).msg.type = "Message"
    /\ LET item == try_recv(rx_in).msg
           live == item.id \in DOMAIN conns
       IN  /\ Recv
           /\ \E ok \in (IF live THEN BOOLEAN ELSE {TRUE}) :
                /\ IF ok
                   THEN /\ UNCHANGED <<events, pc, result>>
                        /\ conns' = deliver(conns, item.id)
                   ELSE ReturnErr /\ conns' = conns
                /\ last' = Last(IF ok THEN "Message" ELSE "MessageErr",
                                item.id, item, FALSE, FALSE, live)
    /\ UNCHANGED <<token_counter, tx_out, socket, run, registered, sockets,
                   allocs, shutdown_at, closed_by_command>>
    /\ ServiceUnchanged

\* service_command, Command::Listen: bind, register under SOCKET, reply.
CmdListen ==
    /\ InChannel
    /\ try_recv(rx_in).msg.type = "Listen"
    /\ LET item == try_recv(rx_in).msg
       IN  /\ Recv
           /\ \/ \E description \in ErrDescriptions :
                   \* bind failed: reply and return Ok
                   /\ tx_out' = Append(tx_out,
                                       listen_failed_reply(item.id, item.addr, description))
                   /\ UNCHANGED <<socket, events, pc, result>>
                   /\ last' = Last("ListenFail", 0, item, FALSE, FALSE, FALSE)
              \/ \* bind succeeded, poll.register failed: the Err is returned
                 /\ ReturnErr
                 /\ UNCHANGED <<socket, tx_out>>
                 /\ last' = Last("ListenRegisterErr", 0, item, FALSE, FALSE, FALSE)
              \/ \* bind and register succeeded
                 /\ socket' = item.addr
                 /\ tx_out' = Append(tx_out, ListenReply(item.id, item.addr, TRUE, ""))
                 /\ UNCHANGED <<events, pc, result>>
                 /\ last' = Last("Listen", 0, item, FALSE, FALSE, FALSE)
    /\ UNCHANGED <<conns, token_counter, run, registered, sockets, allocs, shutdown_at, closed_by_command>>
    /\ ServiceUnchanged

\* service_command, Command::LinkTo: connect, allocate a token, construct and
\* register the Connection, insert it, reply.
CmdLinkTo ==
    /\ InChannel
    /\ try_recv(rx_in).msg.type = "LinkTo"
    /\ LET item == try_recv(rx_in).msg
           nt == next_token(token_counter)
       IN  /\ Recv
           /\ \/ \E description \in ErrDescriptions :
                   \* connect failed: reply with token 0 and return Ok
                   /\ tx_out' = Append(tx_out,
                          LinkToReply(item.id, 0, item.addr, FALSE, description))
                   /\ UNCHANGED <<conns, token_counter, registered, sockets, allocs,
                                  events, pc, result>>
                   /\ last' = Last("LinkToFail", 0, item, FALSE, FALSE, FALSE)
              \/ \* connect succeeded, Connection::new failed: the Err is returned
                 /\ token_counter < MaxToken
                 /\ token_counter' = nt.counter
                 /\ allocs' = Append(allocs, nt.token)
                 /\ sockets' = sockets + 1
                 /\ ReturnErr
                 /\ UNCHANGED <<conns, registered, tx_out>>
                 /\ last' = Last("LinkToNewErr", nt.token, item, FALSE, FALSE, FALSE)
              \/ \* connected, constructed, registered and inserted
                 /\ token_counter < MaxToken
                 /\ token_counter' = nt.counter
                 /\ allocs' = Append(allocs, nt.token)
                 /\ sockets' = sockets + 1
                 /\ conns' = insert(conns, nt.token, Connection(sockets + 1, "link"))
                 /\ registered' = registered \cup {nt.token}
                 /\ tx_out' = Append(tx_out,
                        LinkToReply(item.id, nt.token, item.addr, TRUE, ""))
                 /\ UNCHANGED <<events, pc, result>>
                 /\ last' = Last("LinkTo", nt.token, item, FALSE, FALSE,
                                 nt.token \in DOMAIN conns)
    /\ UNCHANGED <<socket, run, shutdown_at, closed_by_command>>
    /\ ServiceUnchanged

\* service_command, Command::Shoutdown.
CmdShoutdown ==
    /\ InChannel
    /\ try_recv(rx_in).msg.type = "Shoutdown"
    /\ Recv
    /\ run' = shoutdown_run(run)
    /\ shutdown_at' = IF shutdown_at = 0 THEN polls ELSE shutdown_at
    /\ last' = Last("Shoutdown", 0, try_recv(rx_in).msg, FALSE, FALSE, FALSE)
    /\ UNCHANGED <<conns, token_counter, tx_out, socket, registered, events, pc,
                   result, sockets, allocs, closed_by_command>>
    /\ ServiceUnchanged

\* service_command, Command::CloseConn: remove, no notification.
CmdCloseConn ==
    /\ InChannel
    /\ try_recv(rx_in).msg.type = "CloseConn"
    /\ LET item == try_recv(rx_in).msg
           rm == remove_connent(conns, registered, item.id)
       IN  /\ Recv
           /\ conns' = rm.conns
           /\ registered' = rm.registered
           /\ closed_by_command' = IF item.id \in DOMAIN conns
                                   THEN closed_by_command \cup {item.id}
                                   ELSE closed_by_command
           /\ last' = Last("CloseConn", item.id, item, FALSE, FALSE,
                           item.id \in DOMAIN conns)
    /\ UNCHANGED <<token_counter, tx_out, socket, run, events, pc, result, sockets,
                   allocs, shutdown_at>>
    /\ ServiceUnchanged

\* service_command, the `_` arm (ListenReply, LinkToReply): unimplemented!().
CmdReply ==
    /\ InChannel
    /\ try_recv(rx_in).msg.type \in {"ListenReply", "LinkToReply"}
    /\ Recv
    /\ Panic
    /\ last' = Last("Unimplemented", 0, try_recv(rx_in).msg, FALSE, FALSE, FALSE)
    /\ UNCHANGED <<conns, token_counter, tx_out, socket, run, registered, sockets,
                   allocs, shutdown_at, closed_by_command>>
    /\ ServiceUnchanged

\* channel_process, try_recv found nothing: Empty ends the loop, the
\* subscription is not yet re-armed; Disconnected is returned as an Err.
ChanEmpty ==
    /\ Dispatching(CHANNEL)
    /\ rx_in = <<>>
    /\ \/ /\ senders
          /\ pc' = "rearm"
          /\ UNCHANGED <<events, result, last>>
       \/ /\ ~senders
          /\ ReturnErr
          /\ last' = Last("Disconnected", CHANNEL, NoItem, FALSE, FALSE, FALSE)
    /\ UNCHANGED <<conns, token_counter, rx_in, rx_seq, received, tx_out, socket, run, registered,
                   sockets, allocs, shutdown_at, closed_by_command>>
    /\ late' = {}
    /\ HostUnchanged /\ UNCHANGED channel_armed

\* The end of channel_process without the reregister call.
reregister_missing(armed) == armed

\* poll.reregister(&self.rx_in, CHANNEL, readable, edge | oneshot) returned
\* Ok: the subscription is armed again.
reregister(armed) == TRUE

\* channel_process after the loop: the control channel is re-armed, or the
\* Err of reregister is returned.
ChanRearm ==
    /\ pc = "rearm"
    /\ \/ /\ AfterEvent
          /\ channel_armed' = reregister(channel_armed)
          /\ last' = Last("Rearm", CHANNEL, NoItem, FALSE, FALSE, FALSE)
       \/ /\ ReturnErr
          /\ channel_armed' = channel_armed
          /\ last' = Last("RearmErr", CHANNEL, NoItem, FALSE, FALSE, FALSE)
    /\ UNCHANGED <<conns, token_counter, rx_in, rx_seq, received, tx_out, socket, run, registered,
                   sockets, allocs, shutdown_at, closed_by_command>>
    /\ HostUnchanged /\ UNCHANGED late

(* ------------------------------------------------------------- dispatch *)

\* The body of the accept loop without the call of register_insterest.
accept_unregistered(st) ==
    LET nt == next_token(st.counter)
    IN  [conns |-> insert(st.conns, nt.token, Connection(st.sockets + 1, "accept")),
         registered |-> st.registered,
         counter |-> nt.counter,
         allocs |-> Append(st.allocs, nt.token),
         sockets |-> st.sockets + 1,
         clash |-> st.clash \/ nt.token \in DOMAIN st.conns]

\* dispatch, SOCKET arm, the body of the accept loop for one accepted socket:
\* allocate the next token, construct and register the Connection, insert it.
accept_one(st) ==
    LET nt == next_token(st.counter)
    IN  [conns |-> insert(st.conns, nt.token, Connection(st.sockets + 1, "accept")),
         registered |-> st.registered \cup {nt.token},
         counter |-> nt.counter,
         allocs |-> Append(st.allocs, nt.token),
         sockets |-> st.sockets + 1,
         clash |-> st.clash \/ nt.token \in DOMAIN st.conns]

RECURSIVE accept_loop(_, _)
accept_loop(st, n) == IF n = 0 THEN st ELSE accept_loop(accept_one(st), n - 1)

\* dispatch, SOCKET arm: accept until WouldBlock, then re-arm the listener.
\* With no listening socket the event is ignored.
DispatchSocket ==
    /\ Dispatching(SOCKET)
    /\ IF socket = NoSocket
       THEN /\ AfterEvent
            /\ UNCHANGED <<conns, registered, token_counter, allocs, sockets>>
            /\ last' = Last("SocketNone", SOCKET, NoItem, FALSE, FALSE, FALSE)
       ELSE \E n \in 0..MaxAccept :
              LET st == accept_loop([conns |-> conns, registered |-> registered,
                                     counter |-> token_counter, allocs |-> allocs,
                                     sockets |-> sockets, clash |-> FALSE], n)
                  nt == next_token(st.counter)
              IN  /\ token_counter + n <= MaxToken
                  /\ conns' = st.conns
                  /\ registered' = st.registered
                  /\ \/ \* accept reports WouldBlock; the listener is re-armed
                        /\ AfterEvent
                        /\ token_counter' = st.counter
                        /\ allocs' = st.allocs
                        /\ sockets' = st.sockets
                        /\ last' = LastAccept("Accept", n, st.clash)
                     \/ \* accept reports another error: the Err is returned
                        /\ ReturnErr
                        /\ token_counter' = st.counter
                        /\ allocs' = st.allocs
                        /\ sockets' = st.sockets
                        /\ last' = LastAccept("AcceptErr", n, st.clash)
                     \/ \* Connection::new fails for one more accepted socket
                        /\ token_counter + n < MaxToken
                        /\ ReturnErr
                        /\ token_counter' = nt.counter
                        /\ allocs' = Append(st.allocs, nt.token)
                        /\ sockets' = st.sockets + 1
                        /\ last' = LastAccept("AcceptNewErr", n, st.clash)
                     \/ \* WouldBlock, then poll.reregister fails
                        /\ ReturnErr
                        /\ token_counter' = st.counter
                        /\ allocs' = st.allocs
                        /\ sockets' = st.sockets
                        /\ last' = LastAccept("AcceptRearmErr", n, st.clash)
    /\ UNCHANGED <<rx_in, rx_seq, received, tx_out, socket, run, shutdown_at, closed_by_command>>
    /\ ServiceUnchanged

\* connect_process: the event of a connection token.
DispatchConn ==
    /\ pc = "batch"
    /\ events # <<>>
    /\ Head(events).token \notin {SOCKET, CHANNEL}
    /\ LET token == Head(events).token
           rd == Head(events).readiness
           live == token \in DOMAIN conns
           rm == remove_connent(conns, registered, token)
       IN  IF "hup" \in rd \/ "err" \in rd
           THEN /\ conns' = rm.conns
                /\ registered' = rm.registered
                /\ tx_out' = Append(tx_out, close_notification(token))
                /\ last' = Last("Hup", token, NoItem, FALSE, FALSE, live)
           ELSE \E rerr \in BOOLEAN, werr \in BOOLEAN, frames \in 0..1,
                   left \in 0..(IF live THEN conns[token].outq ELSE 0) :
                  LET ranR == "r" \in rd /\ live
                      ranW == "w" \in rd /\ live
                      close == close_flag(ranR, rerr, ranW, werr)
                      sent == IF ranR /\ frames = 1
                              THEN Append(tx_out, Message(token, Payload))
                              ELSE tx_out
                      written == IF ranW /\ ~werr
                                 THEN [conns EXCEPT ![token] = writer(@, left)]
                                 ELSE conns
                      rmc == remove_connent(written, registered, token)
                  IN  \* outcomes of calls that did not run are not choices
                      /\ ranR \/ (~rerr /\ frames = 0)
                      /\ ranW \/ ~werr
                      /\ (ranW /\ ~werr) \/ left = 0
                      /\ IF close
                         THEN /\ conns' = rmc.conns
                              /\ registered' = rmc.registered
                              /\ tx_out' = Append(sent, close_notification(token))
                         ELSE /\ conns' = written
                              /\ registered' = registered
                              /\ tx_out' = sent
                      /\ last' = Last("Conn", token, NoItem, ranR /\ rerr, ranW /\ werr, live)
    /\ AfterEvent
    /\ UNCHANGED <<token_counter, rx_in, rx_seq, received, socket, run, sockets, allocs, shutdown_at, closed_by_command>>
    /\ ServiceUnchanged

(* ------------------------------------------------------ run and run_once *)

\* The control channel is readable (items are queued) and its single-shot
\* subscription is armed: the poller reports it, whether the items came
\* before or after the subscription was armed.
ChannelReady == channel_armed /\ rx_in # <<>>

\* The sources the poller can report: the listening socket, the control
\* channel when it is ready, and every registered connection.
Ready ==
    {[token |-> SOCKET, readiness |-> {"r"}] : x \in (IF socket = NoSocket THEN {} ELSE {1})}
    \cup {[token |-> CHANNEL, readiness |-> {"r"}] : x \in (IF ChannelReady THEN {1} ELSE {})}
    \cup {e \in [token : registered, readiness : Readiness] :
            "w" \in e.readiness =>
                (e.token \in DOMAIN conns /\ conns[e.token].winterest)}

HasToken(b, token) == \E i \in 1..Len(b) : b[i].token = token

\* One token has at most one event in a batch, and a ready control channel
\* is always part of it.
Batches ==
    UNION {{b \in [1..k -> Ready] :
              /\ \A i, j \in 1..k : i # j => b[i].token # b[j].token
              /\ ChannelReady => HasToken(b, CHANNEL)} : k \in 1..MaxBatch}

\* run: the loop condition holds; run_once: poll() returns a batch of events,
\* and the single-shot subscription of a reported channel is disarmed.
Poll ==
    /\ pc = "loop"
    /\ loop_continues(run)
    /\ polls < MaxPolls
    /\ \E b \in Batches :
          /\ events' = b
          /\ channel_armed' = (channel_armed /\ ~HasToken(b, CHANNEL))
    /\ pc' = "batch"
    /\ polls' = polls + 1
    /\ UNCHANGED <<conns, token_counter, rx_in, rx_seq, received, tx_out, socket, run, registered,
                   result, senders, sends, sockets, allocs, shutdown_at, closed_by_command, last, late, codec, wrapper, header>>

\* run: the loop condition fails and run returns Ok(()).
Return ==
    /\ pc = "loop"
    /\ ~loop_continues(run)
    /\ pc' = "done"
    /\ result' = "ok"
    /\ UNCHANGED <<conns, token_counter, rx_in, rx_seq, received, tx_out, socket, run, registered,
                   events, senders, sends, polls, sockets, allocs, shutdown_at, closed_by_command, last, late, channel_armed, codec, wrapper, header>>

(* ------------------------------------------------------ the host process *)

\* The host sends an item on the inbound channel, at any time.
Send ==
    /\ senders
    /\ sends < MaxSends
    /\ pc # "done"
    /\ \E item \in Inputs : rx_in' = Append(rx_in, item)
    /\ rx_seq' = Append(rx_seq, sends + 1)
    /\ received' = received
    /\ late' = IF pc = "rearm" THEN late \cup {sends + 1} ELSE late
    /\ sends' = sends + 1
    /\ UNCHANGED <<conns, token_counter, tx_out, socket, run, registered, events,
                   pc, result, senders, polls, sockets, allocs, shutdown_at, closed_by_command, last, channel_armed, codec, wrapper, header>>

\* The host drops its Sender.
DropSenders ==
    /\ senders
    /\ pc # "done"
    /\ senders' = FALSE
    /\ UNCHANGED <<conns, token_counter, rx_in, rx_seq, received, tx_out, socket, run, registered,
                   events, pc, result, sends, polls, sockets, allocs, shutdown_at, closed_by_command, last, late, channel_armed, codec, wrapper, header>>

Next ==
    \/ Poll
    \/ Return
    \/ DispatchSocket
    \/ ChanMessage
    \/ CmdListen
    \/ CmdLinkTo
    \/ CmdShoutdown
    \/ CmdCloseConn
    \/ CmdReply
    \/ ChanEmpty
    \/ ChanRearm
    \/ DispatchConn
    \/ Send
    \/ DropSenders

Spec == Init /\ [][Next]_vars

\* The steps of the service's thread: it blocks only inside poll().
ServiceNext ==
    \/ Poll
    \/ Return
    \/ DispatchSocket
    \/ ChanMessage
    \/ CmdListen
    \/ CmdLinkTo
    \/ CmdShoutdown
    \/ CmdCloseConn
    \/ CmdReply
    \/ ChanEmpty
    \/ ChanRearm
    \/ DispatchConn

\* The service's thread keeps running; the host may stop sending at any time.
FairSpec == Spec /\ WF_vars(ServiceNext)


(* =========================================================== frame codec *)
(* wire_protocol/message.rs: Message::len, Message::write and Message::read *)
(* over byte buffers.  A byte is a number in 0..255, a buffer a sequence of *)
(* bytes, a string the sequence of its UTF-8 bytes.                         *)

Pow256(k) == 256 ^ k

\* write_u32::<LittleEndian> / write_u16::<LittleEndian>: k bytes, lowest first.
write_le(n, k) == [i \in 1..k |-> (n \div Pow256(i - 1)) % 256]

\* A big-endian integer reader.
read_be(bytes) ==
    LET k == Len(bytes)
        b(i) == IF i <= k THEN bytes[k + 1 - i] ELSE 0
    IN  b(1) + 256 * b(2) + 65536 * b(3) + 16777216 * b(4)

\* read_u32::<LittleEndian> / read_u16::<LittleEndian> on the bytes read.
read_le(bytes) ==
    LET b(i) == IF i <= Len(bytes) THEN bytes[i] ELSE 0
    IN  b(1) + 256 * b(2) + 65536 * b(3) + 16777216 * b(4)

\* The set of bits set in a 16-bit value.
Bits(v) == {i \in 0..15 : (v \div (2 ^ i)) % 2 = 1}

\* The named flags of OpCode.
NamedFlags ==
    {257, 258, 260, 264,                    \* CONNECT CONNACK PING PONG
     513, 514, 516, 520,                    \* REQUEST RESPONSE WATCH WATCHACK
     1025, 1026, 1028, 1032, 1040, 1056,    \* SUBSCRIBE .. PUBACK
     UNKNOW, 32770}                         \* UNKNOW ERROR

\* OpCode::all().bits(): the union of the named flags.
AllBits == UNION {Bits(f) : f \in NamedFlags}

\* OpCode::from_bits(v).unwrap_or_default() of line 170: bitflags' from_bits
\* is Some(v) when v has no bit outside the union of the flags, None
\* otherwise, and Default for OpCode is UNKNOW.
from_bits(v) == IF Bits(v) \subseteq AllBits THEN v ELSE UNKNOW

Msg(message_id, target, origin, opcode, content_type, body) ==
    [message_id |-> message_id, target |-> target, origin |-> origin,
     opcode |-> opcode, content_type |-> content_type, body |-> body]

NoMsg == Msg(0, <<>>, <<>>, 0, 0, <<>>)

\* Message::len without the terminators of the two strings.
len_no_terminators(m) ==
    4 + 4 + Len(m.target) + Len(m.origin) + 2 + 2 + Len(m.body)

\* Message::len.
len(m) ==
    4 + 4 + (Len(m.target) + 1) + (Len(m.origin) + 1) + 2 + 2 + Len(m.body)

\* write_cstring without the terminator.
write_cstring_unterminated(s) == s

\* write_cstring: the bytes of the string and a terminating 0.
write_cstring(s) == s \o <<0>>

\* Message::write into an in-memory buffer (`total_length as u32` keeps every
\* length below 2^32).
write(m) ==
    write_le(len(m), 4) \o write_le(m.message_id, 4)
        \o write_cstring(m.target) \o write_cstring(m.origin)
        \o write_le(m.opcode, 2) \o write_le(m.content_type, 2) \o m.body

\* Position of the first 0 byte at or after `from`, or 0 when there is none.
FirstZero(bytes, from) ==
    IF \E i \in from..Len(bytes) : bytes[i] = 0
    THEN CHOOSE i \in from..Len(bytes) :
             bytes[i] = 0 /\ \A j \in from..(i - 1) : bytes[j] # 0
    ELSE 0

\* `total_length -= k` on a u32.  A result below 0 is an underflow: with
\* overflow checks (debug build) the subtraction panics; without them
\* (release build) it wraps, and the negative number d stands for the u32
\* value 2^32 + d, which exceeds the length of every buffer.
sub_u32(total, k) == total - k

\* The subtraction panics.
underflow(total, checks) == checks /\ total < 0

ReadOk(m, rest) == [kind |-> "ok", msg |-> m, rest |-> rest]
ReadErr == [kind |-> "err", msg |-> NoMsg, rest |-> <<>>]
ReadPanic == [kind |-> "panic", msg |-> NoMsg, rest |-> <<>>]

\* Message::read from an in-memory buffer holding `bytes`; `checks` says
\* whether the build checks integer overflow.  Each field is read, then its
\* size is subtracted from total_length; a read past the end is Err; the
\* body is read with one read call into a vector of total_length bytes, and
\* a short read panics.
read(bytes, checks) ==
    LET n == Len(bytes)
        t0 == read_le(SubSeq(bytes, 1, 4))
        t1 == sub_u32(t0, 4)
        t2 == sub_u32(t1, 4)
        z1 == FirstZero(bytes, 9)
        target == SubSeq(bytes, 9, z1 - 1)
        t3 == sub_u32(t2, Len(target) + 1)
        z2 == FirstZero(bytes, z1 + 1)
        origin == SubSeq(bytes, z1 + 1, z2 - 1)
        t4 == sub_u32(t3, Len(origin) + 1)
        opcode == read_le(SubSeq(bytes, z2 + 1, z2 + 2))
        t5 == sub_u32(t4, 2)
        content_type == read_le(SubSeq(bytes, z2 + 3, z2 + 4))
        total_length == sub_u32(t5, 2)
        avail == n - (z2 + 4)
        read_size == IF total_length < 0 \/ avail < total_length
                     THEN avail ELSE total_length
        body == SubSeq(bytes, z2 + 5, z2 + 4 + read_size)
    IN  IF n < 4 THEN ReadErr
        ELSE IF underflow(t1, checks) THEN ReadPanic
        ELSE IF n < 8 THEN ReadErr
        ELSE IF underflow(t2, checks) THEN ReadPanic
        ELSE IF z1 = 0 THEN ReadErr
        ELSE IF underflow(t3, checks) THEN ReadPanic
        ELSE IF z2 = 0 THEN ReadErr
        ELSE IF underflow(t4, checks) THEN ReadPanic
        ELSE IF n < z2 + 2 THEN ReadErr
        ELSE IF underflow(t5, checks) THEN ReadPanic
        ELSE IF n < z2 + 4 THEN ReadErr
        ELSE IF underflow(total_length, checks) THEN ReadPanic
        ELSE IF total_length = 0 THEN
            ReadOk(Msg(read_le(SubSeq(bytes, 5, 8)), target, origin,
                       from_bits(opcode), content_type, <<>>),
                   SubSeq(bytes, z2 + 5, n))
        ELSE IF total_length < 0 \/ read_size < total_length THEN ReadPanic
        ELSE ReadOk(Msg(read_le(SubSeq(bytes, 5, 8)), target, origin,
                        from_bits(opcode), content_type, body),
                    SubSeq(bytes, z2 + 5 + read_size, n))

(* ------------------------------------------------ the codec's state machine *)

Bodies == UNION {[1..k -> {0, 7}] : k \in 0..MaxBody}

\* Messages handed to write: an empty and a non-empty target, a multi-byte
\* message_id and content_type, named opcodes, the empty set of flags and a
\* union of two flags, every body up to MaxBody bytes with and without 0.
Messages ==
    {Msg(258, target, <<111>>, opcode, 513, body) :
        target \in {<<>>, <<116>>}, opcode \in {257, 1056, UNKNOW, 0, 259},
        body \in Bodies}

\* Messages of streams of several frames.
StreamMessages ==
    {Msg(1, <<>>, <<111>>, 257, 0, <<>>), Msg(2, <<116>>, <<>>, 514, 1, <<0>>),
     Msg(3, <<116>>, <<111>>, UNKNOW, 2, <<7, 0>>)}

Streams ==
    {<<m>> : m \in Messages}
        \cup UNION {[1..k -> StreamMessages] : k \in 2..MaxFrames}

\* Opcode fields a peer may send: every named flag, no flag, unions of flags,
\* single bits of the flags, and values with a bit outside all flags.
RawOpcodes == NamedFlags \cup {0, 1, 256, 259, 769, 34623, 64, 2048, 65535}

RECURSIVE write_all(_)
\* The frames of the messages, one after the other.
write_all(ms) == IF ms = <<>> THEN <<>> ELSE write(Head(ms)) \o write_all(Tail(ms))

\* The header fields read consumes before the body of the frame of m.
HeaderLen(m) == len(m) - Len(m.body)

RECURSIVE extract(_, _, _)
\* Connection::reader's frame extraction (src/service/connection.rs is not
\* part of the sources; modelled from the specification): while the read
\* buffer holds a whole frame by its length prefix, decode it with
\* Message::read and deliver (token, Message); the rest stays buffered.
extract(rbuf, delivered, checks) ==
    LET total == read_le(SubSeq(rbuf, 1, 4))
        out == read(SubSeq(rbuf, 1, total), checks)
    IN  IF Len(rbuf) < 4 \/ total < 4 \/ Len(rbuf) < total
        THEN [rbuf |-> rbuf, delivered |-> delivered, failed |-> FALSE]
        ELSE IF out.kind # "ok"
        THEN [rbuf |-> rbuf, delivered |-> delivered, failed |-> TRUE]
        ELSE extract(SubSeq(rbuf, total + 1, Len(rbuf)),
                     Append(delivered, Message(InitialToken, out.msg)), checks)

CodecInit ==
    /\ New
    /\ wrapper = NoWrapper
    /\ header = NoHeader
    /\ codec \in [stage : {"new"}, checks : BOOLEAN, ms : Streams, buf : {<<>>},
                  from : {"new"}, out : {ReadErr}, wire : {<<>>}, rbuf : {<<>>},
                  delivered : {<<>>}, failed : {FALSE}, chunks : {0}]

\* Message::write of every message of the stream into one buffer.
CodecWrite ==
    /\ codec.stage = "new"
    /\ codec' = [codec EXCEPT !.stage = "written", !.buf = write_all(codec.ms),
                              !.wire = write_all(codec.ms)]
    /\ UNCHANGED <<service_vars, wrapper, header>>

\* A peer's frame with any 16-bit value in the opcode field.
TamperOpcode ==
    /\ codec.stage = "written"
    /\ Len(codec.ms) = 1
    /\ \E v \in RawOpcodes :
        LET at == HeaderLen(codec.ms[1]) - 4
        IN  codec' = [codec EXCEPT
                !.stage = "opcode",
                !.buf = [i \in 1..Len(codec.buf) |->
                            IF i \in {at + 1, at + 2}
                            THEN write_le(v, 2)[i - at] ELSE codec.buf[i]]]
    /\ UNCHANGED <<service_vars, wrapper, header>>

\* A peer's frame with a declared total length that is not the frame's.
TamperLength ==
    /\ codec.stage = "written"
    /\ Len(codec.ms) = 1
    /\ \E total \in (0..(Len(codec.buf) + 1)) \ {Len(codec.buf)} :
        codec' = [codec EXCEPT
            !.stage = "length",
            !.buf = write_le(total, 4) \o SubSeq(codec.buf, 5, Len(codec.buf))]
    /\ UNCHANGED <<service_vars, wrapper, header>>

\* Message::read on the buffer.
CodecRead ==
    /\ codec.stage \in {"written", "opcode", "length"}
    /\ codec' = [codec EXCEPT !.stage = "read", !.from = codec.stage,
                              !.out = read(codec.buf, codec.checks)]
    /\ UNCHANGED <<service_vars, wrapper, header>>

\* One read of the connection's reader: the socket hands over the next
\* bytes of the stream, any number of them, and the reader extracts the
\* frames its buffer now holds.
ReaderFeed ==
    /\ codec.stage \in {"written", "feeding"}
    /\ codec.wire # <<>>
    /\ ~codec.failed
    /\ \E k \in 1..Len(codec.wire) :
        LET r == extract(codec.rbuf \o SubSeq(codec.wire, 1, k), codec.delivered,
                         codec.checks)
        IN  codec' = [codec EXCEPT
                !.stage = "feeding",
                !.wire = SubSeq(codec.wire, k + 1, Len(codec.wire)),
                !.rbuf = r.rbuf, !.delivered = r.delivered, !.failed = r.failed,
                !.chunks = IF codec.chunks < 2 THEN codec.chunks + 1 ELSE 2]
    /\ UNCHANGED <<service_vars, wrapper, header>>

CodecNext ==
    \/ CodecWrite
    \/ TamperOpcode
    \/ TamperLength
    \/ CodecRead
    \/ ReaderFeed

CodecSpec == CodecInit /\ [][CodecNext]_vars


(* ================================================================== Conn *)
(* conn.rs: Conn keeps an optional Wire and a Connector that makes one.    *)
(* A Conn is a record: wire, 0 for None or the number of the Wire held,    *)
(* and connects, the calls of connector.connect() made so far.             *)

NoWire == 0

Returned(c, res) == [conn |-> c, result |-> res]

\* What the wire's send can return.
SendOutcomes == {"ok", "disconnected", "full"}

\* What the wire's recv and wait can return: a message, Disconnected, or
\* another RecvError (Empty, TimedOut).
RecvOutcomes == {"message", "disconnected", "empty"}

\* Conn::new.
new_conn == [wire |-> NoWire, connects |-> 0]

\* Conn::connected.
connected(c) == c.wire # NoWire

\* Conn::connect: the connector is called; its Err is returned by `?`, its
\* Wire replaces the one held.
connect(c, ok) ==
    IF ok
    THEN Returned([wire |-> c.connects + 1, connects |-> c.connects + 1], "Ok")
    ELSE Returned([c EXCEPT !.connects = @ + 1], "Err")

\* Conn::disconnect.
disconnect(c) == Returned([c EXCEPT !.wire = NoWire], "Ok")

\* Conn::fd.
fd(c) ==
    IF ~connected(c) THEN Returned(c, "Err(Disconnected)") ELSE Returned(c, "Ok")

\* Conn::send that drops the wire on a Full error too.
send_full_drops(c, outcome) ==
    IF ~connected(c) THEN Returned(c, "Err(Disconnected)")
    ELSE IF outcome = "ok" THEN Returned(c, "Ok")
    ELSE IF outcome = "disconnected" THEN Returned([c EXCEPT !.wire = NoWire], "Ok")
    ELSE Returned([c EXCEPT !.wire = NoWire], "Err(Full)")

\* Conn::send: SendError::Disconnected drops the wire and Ok(()) is returned;
\* SendError::Full is returned as Err(Full).
send(c, outcome) ==
    IF ~connected(c) THEN Returned(c, "Err(Disconnected)")
    ELSE IF outcome = "ok" THEN Returned(c, "Ok")
    ELSE IF outcome = "disconnected" THEN Returned([c EXCEPT !.wire = NoWire], "Ok")
    ELSE Returned(c, "Err(Full)")

\* Conn::recv that connects when it finds no wire.
recv_reconnecting(c, outcome) ==
    LET d == IF connected(c) THEN c
             ELSE [wire |-> c.connects + 1, connects |-> c.connects + 1]
    IN  IF outcome = "message" THEN Returned(d, "Ok(Some)")
        ELSE IF outcome = "disconnected" THEN Returned([d EXCEPT !.wire = NoWire], "Ok(None)")
        ELSE Returned(d, "Ok(None)")

\* Conn::recv: a message is Ok(Some); RecvError::Disconnected drops the wire;
\* every error ends in Ok(None).
recv(c, outcome) ==
    IF ~connected(c) THEN Returned(c, "Err(Disconnected)")
    ELSE IF outcome = "message" THEN Returned(c, "Ok(Some)")
    ELSE IF outcome = "disconnected" THEN Returned([c EXCEPT !.wire = NoWire], "Ok(None)")
    ELSE Returned(c, "Ok(None)")

\* Conn::wait: as recv, on wire.wait(timeout).
wait(c, outcome) ==
    IF ~connected(c) THEN Returned(c, "Err(Disconnected)")
    ELSE IF outcome = "message" THEN Returned(c, "Ok(Some)")
    ELSE IF outcome = "disconnected" THEN Returned([c EXCEPT !.wire = NoWire], "Ok(None)")
    ELSE Returned(c, "Ok(None)")

(* ------------------------------------------------- the Conn's state machine *)
\* wrapper: conn, the Conn; calls, the method calls made; expect, whether
\* the latest successful connect() has been followed neither by disconnect()
\* nor by a Disconnected from the wire; call, the latest call: its method,
\* the outcome the wire or the connector had for it, what it returned, and
\* the Conn before it.

Called(w, op, outcome, r, expect) ==
    [conn |-> r.conn, calls |-> w.calls + 1, expect |-> expect,
     call |-> [op |-> op, outcome |-> outcome, result |-> r.result, before |-> w.conn]]

ConnInit ==
    /\ New
    /\ codec = NoCodec
    /\ header = NoHeader
    /\ wrapper = [conn |-> new_conn, calls |-> 0, expect |-> FALSE,
                  call |-> [op |-> "new", outcome |-> "", result |-> "Ok",
                            before |-> new_conn]]

ConnUnchanged == UNCHANGED <<service_vars, codec, header>>

ConnConnect ==
    /\ wrapper.calls < MaxCalls
    /\ \E ok \in BOOLEAN :
         wrapper' = Called(wrapper, "connect", IF ok THEN "ok" ELSE "err",
                           connect(wrapper.conn, ok), ok \/ wrapper.expect)
    /\ ConnUnchanged

ConnDisconnect ==
    /\ wrapper.calls < MaxCalls
    /\ wrapper' = Called(wrapper, "disconnect", "", disconnect(wrapper.conn), FALSE)
    /\ ConnUnchanged

ConnFd ==
    /\ wrapper.calls < MaxCalls
    /\ wrapper' = Called(wrapper, "fd", "", fd(wrapper.conn), wrapper.expect)
    /\ ConnUnchanged

ConnSend ==
    /\ wrapper.calls < MaxCalls
    /\ \E outcome \in SendOutcomes :
         wrapper' = Called(wrapper, "send", outcome, send(wrapper.conn, outcome),
                           wrapper.expect /\ outcome # "disconnected")
    /\ ConnUnchanged

ConnRecv ==
    /\ wrapper.calls < MaxCalls
    /\ \E outcome \in RecvOutcomes :
         wrapper' = Called(wrapper, "recv", outcome, recv(wrapper.conn, outcome),
                           wrapper.expect /\ outcome # "disconnected")
    /\ ConnUnchanged

ConnWait ==
    /\ wrapper.calls < MaxCalls
    /\ \E outcome \in RecvOutcomes :
         wrapper' = Called(wrapper, "wait", outcome, wait(wrapper.conn, outcome),
                           wrapper.expect /\ outcome # "disconnected")
    /\ ConnUnchanged

ConnNext ==
    \/ ConnConnect
    \/ ConnDisconnect
    \/ ConnFd
    \/ ConnSend
    \/ ConnRecv
    \/ ConnWait

ConnSpec == ConnInit /\ [][ConnNext]_vars


(* ========================================================= packet Header *)
(* packet.rs: Header is eight bytes; bytes[i] of the code is bytes[i + 1]  *)
(* here.                                                                   *)

VERSION == 1
LowNibbleMask == 15     \* 0b00001111
HighNibbleMask == 240   \* 0b11110000

\* The discriminants of enum Compress (None, Zstd, Gzip) and of enum Crypto
\* (None, Aes128Gcm, Aes256Gcm, ChaCha20Poly1305), as `m as u8` gives them.
Compress == 0 .. 2
Crypto == 0 .. 3

\* Bit i of a u8.
BitOf(b, i) == (b \div (2 ^ i)) % 2

\* a & b on u8.
BitAnd(a, b) ==
    LET F[i \in 0 .. 8] ==
            IF i = 8 THEN 0
            ELSE (IF BitOf(a, i) = 1 /\ BitOf(b, i) = 1 THEN 2 ^ i ELSE 0) + F[i + 1]
    IN  F[0]

\* a | b on u8.
BitOr(a, b) ==
    LET F[i \in 0 .. 8] ==
            IF i = 8 THEN 0
            ELSE (IF BitOf(a, i) = 1 \/ BitOf(b, i) = 1 THEN 2 ^ i ELSE 0) + F[i + 1]
    IN  F[0]

\* a << k on u8.
Shl(a, k) == (a * (2 ^ k)) % 256

\* Header::new.
new_header == [i \in 1 .. 8 |-> IF i = 3 THEN VERSION ELSE 0]

\* Header::from_bytes_unchecked, for the byte strings tried: any of these in
\* byte 5, and a different pattern in every other byte.
Byte5Samples == {15, 240, 255, 165, 35}

from_bytes_unchecked(b5) == [i \in 1 .. 8 |-> IF i = 6 THEN b5 ELSE 16 * i + (9 - i)]

\* Header::set_compress.
set_compress(bytes, m) ==
    LET masked == [bytes EXCEPT ![6] = BitAnd(@, LowNibbleMask)]
    IN  [masked EXCEPT ![6] = BitOr(@, Shl(m, 4))]

\* Header::set_crypto that does not clear the low nibble first.
set_crypto_unmasked(bytes, m) ==
    [bytes EXCEPT ![6] = BitOr(@, m)]

\* Header::set_crypto.
set_crypto(bytes, m) ==
    LET masked == [bytes EXCEPT ![6] = BitAnd(@, HighNibbleMask)]
    IN  [masked EXCEPT ![6] = BitOr(@, m)]

(* ----------------------------------------------- the Header's state machine *)
\* header: bytes, the Header; calls, the setter calls made; compress and
\* crypto, the kind the latest set_compress and set_crypto were given (-1
\* before the first); call, the latest call and the bytes before it.

HeaderInit ==
    /\ New
    /\ codec = NoCodec
    /\ wrapper = NoWrapper
    /\ \E bytes \in {new_header} \cup {from_bytes_unchecked(b) : b \in Byte5Samples} :
         header = [bytes |-> bytes, calls |-> 0, compress |-> -1, crypto |-> -1,
                   call |-> [op |-> "new", kind |-> 0, before |-> bytes]]

HeaderUnchanged == UNCHANGED <<service_vars, codec, wrapper>>

SetCompress ==
    /\ header.calls < MaxSetters
    /\ \E m \in Compress :
         header' = [bytes |-> set_compress(header.bytes, m),
                    calls |-> header.calls + 1,
                    compress |-> m,
                    crypto |-> header.crypto,
                    call |-> [op |-> "set_compress", kind |-> m, before |-> header.bytes]]
    /\ HeaderUnchanged

SetCrypto ==
    /\ header.calls < MaxSetters
    /\ \E m \in Crypto :
         header' = [bytes |-> set_crypto(header.bytes, m),
                    calls |-> header.calls + 1,
                    compress |-> header.compress,
                    crypto |-> m,
                    call |-> [op |-> "set_crypto", kind |-> m, before |-> header.bytes]]
    /\ HeaderUnchanged

HeaderNext ==
    \/ SetCompress
    \/ SetCrypto

HeaderSpec == HeaderInit /\ [][HeaderNext]_vars

(* ================================================================ claims *)

InsertOps == {"LinkTo", "Accept", "AcceptErr", "AcceptNewErr", "AcceptRearmErr"}

\* Close notifications for a token on the outbound channel.
CloseCount(token) ==
    Cardinality({i \in 1..Len(tx_out) : tx_out[i] = CloseConn(token)})

LastOut == tx_out[Len(tx_out)]

\* The step is channel_process receiving an item of the given type.
ChannelItemStep(type) ==
    /\ InChannel
    /\ Head(rx_in).type = type
    /\ rx_in' = Tail(rx_in)

\* The step is dispatch's SOCKET arm.
SocketStep == Dispatching(SOCKET) /\ (events' # events \/ pc' # pc)

\* C1: no insert into the registry uses a token that is a key of the registry
\* at that moment, and every key of the registry is a token next_token
\* returned, held by one connection (one socket) only.
C1_TokenUniqueness ==
    /\ last.op \in InsertOps => ~last.live
    /\ \A t \in DOMAIN conns : \E i \in 1..Len(allocs) : allocs[i] = t
    /\ \A t, u \in DOMAIN conns : conns[t].sock = conns[u].sock => t = u

C1_Witness ==
    /\ last.op \in InsertOps
    /\ Cardinality(DOMAIN conns) = 2

\* C2: after a connection event whose reader or writer failed, the connection
\* is no key of the registry and the last item sent on the outbound channel is
\* the CloseConn notification of its token.
C2_FailureCloses ==
    (last.op = "Conn" /\ last.live /\ (last.rerr \/ last.werr)) =>
        /\ last.token \notin DOMAIN conns
        /\ tx_out # <<>>
        /\ LastOut = CloseConn(last.token)

\* C3: after a hangup or error event of a live connection, exactly one
\* CloseConn notification of its token has been sent, the token is no key of
\* the registry and has no poller interest; and no token ever has more than
\* one close notification.
C3_DisconnectPropagation ==
    /\ (last.op = "Hup" /\ last.live) =>
          /\ CloseCount(last.token) = 1
          /\ LastOut = CloseConn(last.token)
          /\ last.token \notin DOMAIN conns
          /\ last.token \notin registered
    /\ \A i, j \in 1..Len(tx_out) :
          (tx_out[i].type = "CloseConn" /\ tx_out[i] = tx_out[j]) => i = j

C3_Witness ==
    /\ last.op = "Hup"
    /\ last.live
    /\ CloseCount(last.token) = 1

\* C4: no CloseConn notification is ever sent for the token of a connection
\* that a CloseConn command removed.
C4_NoNotificationAfterCommand ==
    \A t \in closed_by_command :
        /\ CloseCount(t) = 0
        /\ t \notin DOMAIN conns
        /\ t \notin registered

\* C5: once Shoutdown has been executed the run flag is false, poll() is never
\* called again, and the only way out of the loop head is the return of run.
C5_ShutdownStops ==
    /\ [](ShutdownExecuted => ~run)
    /\ [][ShutdownExecuted =>
            /\ polls' = polls
            /\ (pc = "loop" /\ pc' # "loop") => (pc' = "done" /\ result' = "ok")]_vars

C5_Witness ==
    /\ ShutdownExecuted
    /\ pc = "done"
    /\ result = "ok"

\* C6 as stated: once Shoutdown has been executed no socket is accepted.
C6_NoAcceptAfterShutdown ==
    [][(ShutdownExecuted /\ SocketStep) => last'.n = 0]_vars

\* C6 as amended: a socket accepted after Shoutdown was executed is accepted in
\* the batch in which Shoutdown was executed, never in a later one.
C6_NoAcceptAfterShutdownBatch ==
    [][(ShutdownExecuted /\ SocketStep /\ last'.n > 0) => polls = shutdown_at]_vars

C6_Witness ==
    /\ ShutdownExecuted
    /\ last.op = "Accept"
    /\ last.n > 0
    /\ polls = shutdown_at

\* C7: run ends only through an executed Shoutdown: no failure of accept,
\* connect, connection construction, enqueue, read, write or of the inbound
\* channel ends it.
ContainedFailures ==
    {"AcceptErr", "AcceptNewErr", "ListenFail", "LinkToFail", "LinkToNewErr",
     "MessageErr", "Disconnected"}

C7_FailuresContained ==
    (\/ last.op \in ContainedFailures
     \/ (last.op = "Conn" /\ (last.rerr \/ last.werr))) =>
        (pc = "done" => (ShutdownExecuted /\ result = "ok"))

\* C8: a Listen command whose bind fails sends exactly one item, a ListenReply
\* with the command's id and addr, success = false and a non-empty message,
\* and changes neither the run flag, the listening socket, the registry, the
\* token counter nor the position of the loop.
C8_ListenFailure ==
    [][(ChannelItemStep("Listen") /\ last'.op = "ListenFail") =>
         /\ Len(tx_out') = Len(tx_out) + 1
         /\ SubSeq(tx_out', 1, Len(tx_out)) = tx_out
         /\ tx_out'[Len(tx_out')].type = "ListenReply"
         /\ tx_out'[Len(tx_out')].id = Head(rx_in).id
         /\ tx_out'[Len(tx_out')].addr = Head(rx_in).addr
         /\ tx_out'[Len(tx_out')].success = FALSE
         /\ tx_out'[Len(tx_out')].msg # ""
         /\ UNCHANGED <<run, socket, conns, registered, token_counter, pc, result,
                        events>>]_vars

C8_Witness ==
    /\ last.op = "ListenFail"
    /\ socket # NoSocket
    /\ pc # "done"

\* C9: a LinkTo command sends exactly one item, a LinkToReply with the
\* command's id; with success = true it carries the token just allocated,
\* which is a key of the registry; with success = false the counter and the
\* registry are unchanged; and run has not ended.
C9_LinkToReplies ==
    [][ChannelItemStep("LinkTo") =>
         /\ Len(tx_out') = Len(tx_out) + 1
         /\ SubSeq(tx_out', 1, Len(tx_out)) = tx_out
         /\ tx_out'[Len(tx_out')].type = "LinkToReply"
         /\ tx_out'[Len(tx_out')].id = Head(rx_in).id
         /\ tx_out'[Len(tx_out')].success =>
               /\ tx_out'[Len(tx_out')].token = token_counter
               /\ token_counter' = token_counter + 1
               /\ token_counter \in DOMAIN conns'
         /\ ~tx_out'[Len(tx_out')].success =>
               UNCHANGED <<token_counter, conns, registered>>
         /\ pc' # "done"]_vars

\* C10: every token next_token returned is above the reserved tokens SOCKET
\* and CHANNEL, and each is greater than all returned before it.
C10_TokensIncrease ==
    /\ \A i \in 1..Len(allocs) : allocs[i] > CHANNEL /\ allocs[i] > SOCKET
    /\ \A i, j \in 1..Len(allocs) : i < j => allocs[i] < allocs[j]
    /\ \A t \in DOMAIN conns : t \notin {SOCKET, CHANNEL}

C10_Witness ==
    /\ Len(allocs) = 2
    /\ Cardinality(DOMAIN conns) = 1

\* C11: the items of the inbound channel are received, and their effects
\* applied, in the order of their sends: every item still queued was sent after
\* the item received last, the queue holds the items in the order of their
\* sends, and no item sent before the one received last is still waiting.
C11_InboundOrder ==
    /\ \A i \in 1..Len(rx_seq) : rx_seq[i] > received
    /\ \A i, j \in 1..Len(rx_seq) : i < j => rx_seq[i] < rx_seq[j]
    /\ Len(rx_seq) = Len(rx_in)
    /\ received = sends - Len(rx_in)

\* Two items were queued together, one a message and one a command, and the
\* first of them has been received.
C11_Witness ==
    /\ received = 1
    /\ rx_seq = <<2>>
    /\ last.item.type = "Message"
    /\ rx_in[1].type = "LinkTo"

(* ----------------------------------------------------------- frame codec *)

\* The frames a reader has to deliver for the stream, in order.
Expected == [i \in 1..Len(codec.ms) |-> Message(InitialToken, codec.ms[i])]

\* The value in the opcode field of the buffer.
OpcodeField ==
    LET at == HeaderLen(codec.ms[1]) - 4
    IN  read_le(SubSeq(codec.buf, at + 1, at + 2))

\* The total length the buffer's frame declares.
Declared == read_le(SubSeq(codec.buf, 1, 4))

\* C12: reading the bytes write produced for a Message gives back a Message
\* with the same message_id, target, origin, opcode, content_type and body,
\* and consumes exactly the frame.
C12_RoundTrip ==
    (codec.stage = "read" /\ codec.from = "written") =>
        /\ codec.out.kind = "ok"
        /\ codec.out.msg = codec.ms[1]
        /\ codec.out.rest = write_all(Tail(codec.ms))

C12_Witness ==
    /\ codec.stage = "read"
    /\ codec.from = "written"
    /\ codec.out.kind = "ok"
    /\ codec.out.msg = Msg(258, <<116>>, <<111>>, 1056, 513, <<7, 0>>)

\* C13: the little-endian length prefix write emits equals Message::len() and
\* the number of bytes of the whole frame, prefix included.
C13_LengthPrefix ==
    (codec.stage = "written" /\ Len(codec.ms) = 1) =>
        /\ Declared = len(codec.ms[1])
        /\ Declared = Len(codec.buf)
        /\ SubSeq(codec.buf, 1, 4) = <<Len(codec.buf), 0, 0, 0>>

C13_Witness ==
    /\ codec.stage = "written"
    /\ Len(codec.ms) = 1
    /\ Len(codec.ms[1].body) = 2
    /\ codec.ms[1].target # <<>>
    /\ Declared = 18
    /\ Len(codec.buf) = 18

\* C14: for every 16-bit value in the opcode field of an otherwise well-formed
\* frame read succeeds, a value equal to a named flag decodes to that flag,
\* and a value equal to no named flag decodes to UNKNOW.
C14_OpcodeLenience ==
    (codec.stage = "read" /\ codec.from = "opcode") =>
        /\ codec.out.kind = "ok"
        /\ OpcodeField \in NamedFlags => codec.out.msg.opcode = OpcodeField
        /\ OpcodeField \notin NamedFlags => codec.out.msg.opcode = UNKNOW

\* C15: read on a frame whose declared total length is smaller than the header
\* fields it holds, or larger than the bytes present, returns an error and
\* does not abort.
C15_LengthChecked ==
    (/\ codec.stage = "read"
     /\ codec.from = "length"
     /\ \/ Declared < HeaderLen(codec.ms[1])
        \/ Declared > Len(codec.buf)) =>
        codec.out.kind = "err"

\* C16: whatever the chunks in which the bytes of the frames arrive, the
\* reader never fails, delivers the frames' messages in order without loss
\* or duplicate, keeps exactly the undelivered bytes received so far, and
\* once all bytes have arrived has delivered every message, as a single
\* read of all the bytes does.
C16_Reassembly ==
    codec.stage \in {"written", "feeding"} =>
        /\ ~codec.failed
        /\ Len(codec.delivered) <= Len(codec.ms)
        /\ codec.delivered = SubSeq(Expected, 1, Len(codec.delivered))
        /\ codec.rbuf \o codec.wire =
               write_all(SubSeq(codec.ms, Len(codec.delivered) + 1, Len(codec.ms)))
        /\ Len(codec.rbuf) < 4
             \/ Len(codec.rbuf) < len(codec.ms[Len(codec.delivered) + 1])
        /\ codec.wire = <<>> => codec.delivered = Expected /\ codec.rbuf = <<>>

C16_Witness ==
    /\ codec.stage = "feeding"
    /\ codec.wire = <<>>
    /\ codec.chunks = 2
    /\ Len(codec.ms) = 2
    /\ codec.delivered = Expected

(* ---------------------------------------------------------- the service *)

\* C17: a connection token has poller interest registered exactly when it is
\* a key of the registry, after every step of dispatch: insertions (accept,
\* LinkTo) register, removals (CloseConn, hangup or error, reader or writer
\* failure) deregister.
C17_InterestIffKey == registered = DOMAIN conns

C17_Witness ==
    /\ last.op = "Hup"
    /\ last.live
    /\ last.token \notin registered
    /\ \E t \in registered : conns[t].via = "accept"
    /\ registered = DOMAIN conns

\* C18: a new Service has no listening socket, and while no Listen command
\* has succeeded no listening-socket event is delivered or acted upon, no
\* socket is accepted, and every connection of the registry was inserted by
\* a LinkTo command that replied success with the connection's token.
C18_ConnectOutOnly ==
    /\ last.op = "new" => socket = NoSocket /\ conns = <<>>
    /\ socket = NoSocket =>
        /\ \A i \in 1..Len(events) : events[i].token # SOCKET
        /\ last.op \notin {"Accept", "AcceptErr", "AcceptNewErr", "AcceptRearmErr"}
        /\ \A i \in 1..Len(tx_out) :
              ~(tx_out[i].type = "ListenReply" /\ tx_out[i].success)
        /\ \A t \in DOMAIN conns :
              /\ conns[t].via = "link"
              /\ \E i \in 1..Len(tx_out) :
                    /\ tx_out[i].type = "LinkToReply"
                    /\ tx_out[i].success
                    /\ tx_out[i].token = t

C18_Witness ==
    /\ socket = NoSocket
    /\ polls = MaxPolls
    /\ InitialToken \in DOMAIN conns
    /\ \E i \in 1..Len(tx_out) : tx_out[i].type = "ListenReply" /\ ~tx_out[i].success

\* Item number k of the sends is waiting on the inbound channel.
Queued(k) == \E i \in 1..Len(rx_seq) : rx_seq[i] = k

\* run has returned, a Shoutdown has cleared the run flag, or the run has
\* used up its poll() calls.
Stopped == pc = "done" \/ ~run \/ (pc = "loop" /\ polls = MaxPolls)

\* C19: while the service is running every item put on the inbound channel
\* is eventually received and processed, whenever it was sent, also between
\* the final empty try_recv of a drain and the re-arming of the channel.
C19_NoLostWakeup ==
    \A k \in 1..MaxSends : Queued(k) ~> (received >= k \/ Stopped)

C19_Witness ==
    /\ 2 \in late
    /\ received = 2
    /\ last.item.type = "LinkTo"
    /\ last.op = "LinkTo"
    /\ polls = 2

\* C20: a step of channel_process that receives a Message for a token that
\* is not a key of the registry changes neither the registry, the poller
\* interest, the token counter, the listening socket nor the run flag, sends
\* nothing on the outbound channel, and does not end the run.
C20_UnknownTokenDropped ==
    [][(ChannelItemStep("Message") /\ Head(rx_in).id \notin DOMAIN conns) =>
         /\ UNCHANGED <<conns, registered, token_counter, socket, run, tx_out>>
         /\ pc' = pc
         /\ result' = result]_vars

C20_Witness ==
    /\ last.op = "Message"
    /\ ~last.live
    /\ \E i \in 1..Len(allocs) : allocs[i] = last.token
    /\ last.token \notin DOMAIN conns
    /\ tx_out[Len(tx_out)] = CloseConn(last.token)
    /\ pc # "done"

\* C21: no item received from the inbound channel, whatever its variant,
\* makes the service panic.
C21_NoItemAborts ==
    last.item.type # "none" => result # "panic"

(* ------------------------------------------------------------------ Conn *)

\* C22: connected() is true exactly when the latest successful connect() has
\* been followed neither by disconnect() nor by a Disconnected error of the
\* wire in send, recv or wait; a failed connect() and a Full error of send
\* leave it as it was.
C22_ConnectedTracksWire ==
    wrapper.calls > 0 =>
        /\ connected(wrapper.conn) = wrapper.expect
        /\ (wrapper.call.op = "connect" /\ wrapper.call.outcome = "err") =>
              /\ wrapper.call.result = "Err"
              /\ connected(wrapper.conn) = connected(wrapper.call.before)
        /\ (/\ wrapper.call.op = "send"
            /\ wrapper.call.outcome = "full"
            /\ connected(wrapper.call.before)) =>
              connected(wrapper.conn) /\ wrapper.call.result = "Err(Full)"

C22_Witness ==
    /\ wrapper.calls = 4
    /\ wrapper.call.op = "send"
    /\ wrapper.call.outcome = "full"
    /\ connected(wrapper.call.before)
    /\ connected(wrapper.conn)
    /\ wrapper.conn.connects = 3
    /\ wrapper.conn.wire = 2

\* C23: fd, send, recv and wait called on a Conn that is not connected return
\* Err(Disconnected), leave it not connected and do not call the connector.
C23_NoImplicitReconnect ==
    (/\ wrapper.calls > 0
     /\ wrapper.call.op \in {"fd", "send", "recv", "wait"}
     /\ ~connected(wrapper.call.before)) =>
        /\ wrapper.call.result = "Err(Disconnected)"
        /\ ~connected(wrapper.conn)
        /\ wrapper.conn = wrapper.call.before

C23_Witness ==
    /\ wrapper.calls = 3
    /\ wrapper.call.op = "recv"
    /\ wrapper.call.outcome = "message"
    /\ ~connected(wrapper.call.before)
    /\ wrapper.call.before.connects = 1
    /\ wrapper.call.result = "Err(Disconnected)"

(* --------------------------------------------------------- packet Header *)

HighNibble(b) == b \div 16

LowNibble(b) == b % 16

\* C24: after any sequence of setter calls the high nibble of byte 5 is the
\* kind of the latest set_compress and the low nibble the kind of the latest
\* set_crypto; set_compress leaves the low nibble, set_crypto the high nibble,
\* and both every other byte, as they were.
C24_NibblesIndependent ==
    /\ header.calls > 0 =>
          /\ header.compress # -1 => HighNibble(header.bytes[6]) = header.compress
          /\ header.crypto # -1 => LowNibble(header.bytes[6]) = header.crypto
          /\ header.call.op = "set_compress" =>
                LowNibble(header.bytes[6]) = LowNibble(header.call.before[6])
          /\ header.call.op = "set_crypto" =>
                HighNibble(header.bytes[6]) = HighNibble(header.call.before[6])
          /\ \A i \in (1 .. 8) \ {6} : header.bytes[i] = header.call.before[i]

C24_Witness ==
    /\ header.calls = 3
    /\ header.call.op = "set_crypto"
    /\ header.call.kind = 0
    /\ header.call.before[6] = 16 + 3
    /\ header.bytes[6] = 16
    /\ header.bytes[3] = VERSION

====
